---- MODULE Spec2Model ----
(***************************************************************************)
(* State-machine model of the VideoGenerator component                     *)
(* (src/components/VideoGenerator.tsx): the recording session made of the  *)
(* requestAnimationFrame clock loop (animate/step), the MediaRecorder      *)
(* capture pipeline (startRecording, ondataavailable, onstop), the manual  *)
(* stop (stopRecording) and the blobUrl effect cleanup, and the render     *)
(* configuration (title, subtitle, background, resolution) drawFrame       *)
(* paints the canvas with.                                                 *)
(*                                                                         *)
(* Every action is one event-loop task: the handler as written, followed   *)
(* by the React commit it causes (state setters applied, and the cleanup   *)
(* of the [blobUrl] effect run with the previous blobUrl when blobUrl      *)
(* changed).  Closures keep the values they captured: a scheduled step     *)
(* carries the isRecording and totalMs of the render that created it.      *)
(***************************************************************************)
EXTENDS Integers, Sequences, FiniteSets, TLC

\* ---- bounds of the model ----
MaxStarts == 2          \* accepted start() calls, i.e. encoders constructed
MaxChunks == 1          \* timeslice chunks one encoder delivers while recording
MaxNow == 2000          \* last value of the millisecond clock

\* ---- values the inputs are drawn from ----
Durations == {0, 1}                 \* seconds typed into the duration field
FpsChoices == {0, 30}               \* value typed into the FPS field
Advances == {1000}                  \* milliseconds between two events
ChunkSizes == {0, 2}                \* e.data.size of a delivered chunk

Prompts == {" "}                    \* text typed into the Title field
Subtitles == {""}                   \* text typed into the Subtitle field
BgStyles == {"Aurora", "Particles", "Waves"}    \* options of the Background select

\* width and height of each resolution
RESOLUTION_MAP ==
    [k \in {"720p", "1080p", "Square"} |->
        IF k = "720p" THEN [width |-> 1280, height |-> 720]
        ELSE IF k = "1080p" THEN [width |-> 1920, height |-> 1080]
        ELSE [width |-> 1080, height |-> 1080]]

\* setProgress receives 0/0 when totalMs is 0
NaN == -1

\* the preference list of startRecording
mimeTypes ==
    << "video/webm;codecs=vp9", "video/webm;codecs=vp8", "video/webm", "video/mp4" >>

\* what MediaRecorder.isTypeSupported accepts on the platforms modelled
SupportedChoices == { {}, {"video/webm;codecs=vp8", "video/webm"} }

VARIABLES
    duration,           \* useState duration (seconds)
    fps,                \* useState fps
    isRecording,        \* useState isRecording
    progress,           \* useState progress (percent, or NaN)
    blobUrl,            \* useState blobUrl (0 is null, else an object URL)
    blobSize,           \* useState blobSize
    canvasRef,          \* canvasRef.current is non-null (the component is mounted)
    mediaRecorderRef,   \* mediaRecorderRef.current (0 is null, else an encoder)
    chunksRef,          \* chunksRef.current, sequence of [enc, size]
    rafRef,             \* rafRef.current (0 is null, else a request id)
    startTimeRef,       \* startTimeRef.current
    videoSrc,           \* videoRef.current.src (0 when never set)
    supported,          \* types for which MediaRecorder.isTypeSupported is true
    clock,              \* performance.now()
    encs,               \* every MediaRecorder constructed, in order
    ticks,              \* animation frame callbacks requested and not yet run
    nextRaf,            \* next id requestAnimationFrame returns
    nextUrl,            \* next object URL URL.createObjectURL mints
    live,               \* object URLs created and not revoked
    prompt,             \* useState prompt (the title)
    subtitle,           \* useState subtitle
    bgStyle,            \* useState bgStyle
    resolutionKey,      \* useState resolutionKey
    canvas,             \* width and height of the canvas element
    ev                  \* the event that produced this state

config == << duration, fps >>
state == << isRecording, progress, blobUrl, blobSize >>
refs == << canvasRef, mediaRecorderRef, chunksRef, rafRef, startTimeRef, videoSrc >>
platform == << encs, ticks, nextRaf, nextUrl, live >>
render == << prompt, subtitle, bgStyle, resolutionKey, canvas >>

vars == << config, state, refs, platform, render, supported, clock, ev >>

\* ---- helpers ----
Min(a, b) == IF a < b THEN a ELSE b
Max(a, b) == IF a > b THEN a ELSE b

\* String.prototype.trim, for text whose only white space is the space
RECURSIVE TrimStart(_)
TrimStart(s) ==
    IF Len(s) > 0 /\ SubSeq(s, 1, 1) = " " THEN TrimStart(SubSeq(s, 2, Len(s))) ELSE s

RECURSIVE TrimEnd(_)
TrimEnd(s) ==
    IF Len(s) > 0 /\ SubSeq(s, Len(s), Len(s)) = " "
    THEN TrimEnd(SubSeq(s, 1, Len(s) - 1))
    ELSE s

Trim(s) == TrimEnd(TrimStart(s))

\* the background branch of drawFrame: the canvas calls it makes, in order.
\* An argument computed from the time (a colour stop, a particle position)
\* is kept as the time t it is computed from.
Background(cfg, t) ==
    LET w == cfg.width
        h == cfg.height
    IN  IF cfg.bgStyle = "Aurora"
        THEN << [cmd |-> "createLinearGradient", args |-> << 0, 0, w, h >>],
                [cmd |-> "addColorStop", args |-> << 0, t >>],
                [cmd |-> "addColorStop", args |-> << 1, t >>],
                [cmd |-> "fillRect", args |-> << 0, 0, w, h >>] >>
        ELSE IF cfg.bgStyle = "Particles"
        THEN << [cmd |-> "fillRect", args |-> << 0, 0, w, h >>],
                [cmd |-> "arc", args |-> << 300, w, h, t >>] >>
        ELSE << [cmd |-> "createRadialGradient",
                 args |-> << (w * 2) \div 10, (h * 2) \div 10, 50,
                             w \div 2, (h * 6) \div 10, Max(w, h) >>],
                [cmd |-> "addColorStop", args |-> << 0, t >>],
                [cmd |-> "addColorStop", args |-> << 1, t >>],
                [cmd |-> "fillRect", args |-> << 0, 0, w, h >>] >>

\* drawFrame(ctx, t) of a render whose bgStyle, width, height, prompt and
\* subtitle are cfg: the canvas calls it makes, in order.  fillText is
\* (text, font size in px, centerX, centerY, t), the wobble being computed
\* from t.
DrawFrame(cfg, t) ==
    LET w == cfg.width
        h == cfg.height
        title == IF Trim(cfg.prompt) = "" THEN "Your animated title" ELSE Trim(cfg.prompt)
        sub == Trim(cfg.subtitle)
    IN  Background(cfg, t)
        \o << [cmd |-> "fillText",
               args |-> << title, (Min(w, h) * 7) \div 100, w \div 2, h \div 2, t >>] >>
        \o (IF sub # ""
            THEN << [cmd |-> "fillText",
                     args |-> << sub, (Min(w, h) * 3) \div 100, w \div 2,
                                 h \div 2 + 40, t >>] >>
            ELSE << >>)
        \o << [cmd |-> "strokeRect", args |-> << 12, 12, w - 24, h - 24 >>] >>

RECURSIVE SumSizes(_)
SumSizes(s) == IF s = << >> THEN 0 ELSE Head(s).size + SumSizes(Tail(s))

\* mimeTypes.find((t) => MediaRecorder.isTypeSupported(t)); "" is undefined
Find(S) ==
    IF \E i \in 1..Len(mimeTypes) : mimeTypes[i] \in S
    THEN mimeTypes[CHOOSE i \in 1..Len(mimeTypes) :
                      /\ mimeTypes[i] \in S
                      /\ \A j \in 1..(i - 1) : mimeTypes[j] \notin S]
    ELSE ""

\* (clamped / totalMs) * 100
Percent(clamped, totalMs) ==
    IF totalMs = 0 THEN NaN ELSE (clamped * 100) \div totalMs

\* CancelRaf cancelling nothing
CancelRafNone(T, id) == T

\* cancelAnimationFrame(id) guarded by "if (rafRef.current)"
CancelRaf(T, id) == IF id # 0 THEN { t \in T : t.id # id } ELSE T

\* MrStop with a recorder that queues a stop task every time stop() is called
MrStopAlways(E, m, who) ==
    IF m # 0
    THEN [E EXCEPT ![m].state = "inactive", ![m].pending = TRUE, ![m].by = who]
    ELSE E

\* try { mediaRecorderRef.current?.stop() } catch {}: an inactive recorder
\* raises (swallowed); a recording one becomes inactive and queues the task
\* that fires its last dataavailable and its stop event.  by names the caller.
MrStop(E, m, who) ==
    IF m # 0 /\ E[m].state = "recording"
    THEN [E EXCEPT ![m].state = "inactive", ![m].pending = TRUE, ![m].by = who]
    ELSE E

\* URL.revokeObjectURL(u) guarded by "if (u)"
Revoke(L, u) == IF u # 0 THEN L \ {u} ELSE L

\* StartAccepted without the isRecording guard
StartAcceptedNoGuard == canvasRef

\* StartAccepted failing fast when no listed type is supported
StartAcceptedSupported == canvasRef /\ ~isRecording /\ Find(supported) # ""

\* the guards at the top of startRecording
StartAccepted == canvasRef /\ ~isRecording

Init ==
    /\ duration = 5
    /\ fps = 30
    /\ isRecording = FALSE
    /\ progress = 0
    /\ blobUrl = 0
    /\ blobSize = 0
    /\ canvasRef = TRUE
    /\ mediaRecorderRef = 0
    /\ chunksRef = << >>
    /\ rafRef = 0
    /\ startTimeRef = 0
    /\ videoSrc = 0
    /\ supported \in SupportedChoices
    /\ clock = 0
    /\ encs = << >>
    /\ ticks = {}
    /\ nextRaf = 1
    /\ nextUrl = 1
    /\ live = {}
    /\ prompt = "A serene sunrise over mountains with floating particles"
    /\ subtitle = "Generated locally with Canvas + WebM"
    /\ bgStyle = "Aurora"
    /\ resolutionKey = "720p"
    /\ canvas = RESOLUTION_MAP["720p"]
    /\ ev = [op |-> "init"]

\* Cleanup without the try/catch around stop(): when stop() raises on a
\* recorder that is not recording, the revokeObjectURL after it does not run
CleanupUncaught(T, E, L, id, m, u) ==
    [ticks |-> CancelRaf(T, id),
     encs |-> MrStop(E, m, "cleanup"),
     live |-> IF m # 0 /\ E[m].state # "recording" THEN L ELSE Revoke(L, u)]

\* the cleanup function returned by the [blobUrl] effect, u being the blobUrl
\* of the render that created it
Cleanup(T, E, L, id, m, u) ==
    [ticks |-> CancelRaf(T, id),
     encs |-> MrStop(E, m, "cleanup"),
     live |-> Revoke(L, u)]

\* new MediaRecorder(stream, supported ? {mimeType: supported, ...} : undefined)
\* still inactive.  delivered: the chunks of non-zero size it has dispatched to
\* ondataavailable, kept until its stop event; acks: its stop events so far;
\* by: the caller of the stop() whose task is pending
NewRecorder ==
    [state |-> "inactive", pending |-> FALSE, mimeType |-> Find(supported),
     delivered |-> << >>, acks |-> 0, by |-> ""]

\* the step closure animate creates: totalMs is its argument, isRecording the
\* value captured by the useCallback of the render that made startRecording,
\* draw what the drawFrame of that render captured
NewStep(id) ==
    [id |-> id, totalMs |-> duration * 1000, isRecording |-> isRecording,
     draw |-> [bgStyle |-> bgStyle, width |-> RESOLUTION_MAP[resolutionKey].width,
               height |-> RESOLUTION_MAP[resolutionKey].height,
               prompt |-> prompt, subtitle |-> subtitle]]

\* new Blob(chunksRef.current, {type: mr.mimeType || "video/webm"})
NewBlob(e, parts) ==
    [parts |-> parts, size |-> SumSizes(parts),
     type |-> IF encs[e].mimeType = "" THEN "video/webm" ELSE encs[e].mimeType]

\* mr.ondataavailable: chunks of size 0 are not buffered
OnDataAvailable(buf, e, s) ==
    IF s > 0 THEN Append(buf, [enc |-> e, size |-> s]) ELSE buf

\* startRecording; ctxOk is whether canvas.getContext("2d") returns a context.
\* The commit that follows runs the effect cleanup when blobUrl went from an
\* object URL to null.
StartRecording(ctxOk) ==
    IF ~StartAccepted
    THEN /\ ev' = [op |-> "start", accepted |-> FALSE]
         /\ UNCHANGED << config, state, refs, platform, render, supported, clock >>
    ELSE LET e == Len(encs) + 1
             E1 == Append(encs, IF ctxOk THEN [NewRecorder EXCEPT !.state = "recording"]
                                         ELSE NewRecorder)
             T1 == IF ctxOk THEN ticks \cup {NewStep(nextRaf)} ELSE ticks
             raf1 == IF ctxOk THEN nextRaf ELSE rafRef
             L1 == Revoke(live, blobUrl)
             c == IF blobUrl # 0
                  THEN Cleanup(T1, E1, L1, raf1, e, blobUrl)
                  ELSE [ticks |-> T1, encs |-> E1, live |-> L1]
         IN  /\ Len(encs) < MaxStarts
             /\ blobUrl' = 0
             /\ blobSize' = 0
             /\ chunksRef' = << >>
             /\ mediaRecorderRef' = e
             /\ isRecording' = TRUE
             /\ progress' = 0
             /\ startTimeRef' = clock
             /\ rafRef' = raf1
             /\ nextRaf' = IF ctxOk THEN nextRaf + 1 ELSE nextRaf
             /\ ticks' = c.ticks
             /\ encs' = c.encs
             /\ live' = c.live
             /\ ev' = [op |-> "start", accepted |-> TRUE, ctx |-> ctxOk, enc |-> e,
                       duration |-> duration, fps |-> fps, had |-> blobUrl,
                       cleanup |-> blobUrl # 0]
             /\ UNCHANGED << config, canvasRef, videoSrc, nextUrl, render,
                             supported, clock >>

\* step(now): one animation frame of the clock loop; drawFrame(ctx, now) paints
\* the canvas for the time drawn
Step(t) ==
    LET elapsed == clock - startTimeRef
        clamped == Min(elapsed, t.totalMs)
        again == elapsed < t.totalMs /\ t.isRecording
    IN  /\ t \in ticks
        /\ progress' = IF canvasRef THEN Percent(clamped, t.totalMs) ELSE progress
        /\ IF again
           THEN /\ rafRef' = nextRaf
                /\ nextRaf' = nextRaf + 1
                /\ ticks' = (ticks \ {t}) \cup {[t EXCEPT !.id = nextRaf]}
                /\ UNCHANGED << encs, isRecording >>
           ELSE /\ ticks' = CancelRaf(ticks \ {t}, rafRef)
                /\ encs' = MrStop(encs, mediaRecorderRef, "step")
                /\ isRecording' = IF canvasRef THEN FALSE ELSE isRecording
                /\ UNCHANGED << rafRef, nextRaf >>
        /\ ev' = [op |-> "tick", elapsed |-> elapsed, totalMs |-> t.totalMs,
                  again |-> again, drawn |-> clock, before |-> progress,
                  frame |-> DrawFrame(t.draw, clock)]
        /\ UNCHANGED << config, blobUrl, blobSize, canvasRef, mediaRecorderRef,
                        chunksRef, startTimeRef, videoSrc, nextUrl, live,
                        render, supported, clock >>

\* stopRecording
StopRecording ==
    /\ isRecording' = IF canvasRef THEN FALSE ELSE isRecording
    /\ encs' = MrStop(encs, mediaRecorderRef, "stop")
    /\ ticks' = CancelRaf(ticks, rafRef)
    /\ ev' = [op |-> "stop", was |-> isRecording, hadTick |-> ticks # {}]
    /\ UNCHANGED << config, progress, blobUrl, blobSize, refs, nextRaf, nextUrl,
                    live, render, supported, clock >>

\* a timeslice chunk of recorder e reaches mr.ondataavailable
EncoderData(e, s) ==
    /\ e \in 1..Len(encs)
    /\ encs[e].state = "recording"
    /\ Len(encs[e].delivered) < MaxChunks
    /\ chunksRef' = OnDataAvailable(chunksRef, e, s)
    /\ encs' = [encs EXCEPT ![e].delivered = OnDataAvailable(@, e, s)]
    /\ ev' = [op |-> "data", enc |-> e, size |-> s]
    /\ UNCHANGED << config, state, canvasRef, mediaRecorderRef, rafRef,
                    startTimeRef, videoSrc, ticks, nextRaf, nextUrl, live,
                    render, supported, clock >>

\* the task a stop() of recorder e queued: its last chunk reaches
\* mr.ondataavailable, then mr.onstop runs.  The commit that follows runs the
\* effect cleanup, blobUrl having changed.
EncoderStop(e, s) ==
    LET buf == OnDataAvailable(chunksRef, e, s)
        E1 == [encs EXCEPT ![e].pending = FALSE, ![e].acks = @ + 1,
                           ![e].delivered = << >>, ![e].by = ""]
        L1 == live \cup {nextUrl}
        c == IF canvasRef
             THEN Cleanup(ticks, E1, L1, rafRef, mediaRecorderRef, blobUrl)
             ELSE [ticks |-> ticks, encs |-> E1, live |-> L1]
    IN  /\ e \in 1..Len(encs)
        /\ encs[e].pending
        /\ chunksRef' = buf
        /\ nextUrl' = nextUrl + 1
        /\ blobUrl' = IF canvasRef THEN nextUrl ELSE blobUrl
        /\ blobSize' = IF canvasRef THEN SumSizes(buf) ELSE blobSize
        /\ videoSrc' = IF canvasRef THEN nextUrl ELSE videoSrc
        /\ ticks' = c.ticks
        /\ encs' = c.encs
        /\ live' = c.live
        /\ ev' = [op |-> "onstop", enc |-> e, by |-> encs[e].by,
                  blob |-> NewBlob(e, buf),
                  delivered |-> OnDataAvailable(encs[e].delivered, e, s),
                  had |-> blobUrl, cleanup |-> canvasRef]
        /\ UNCHANGED << config, isRecording, progress, canvasRef,
                        mediaRecorderRef, rafRef, startTimeRef, nextRaf,
                        render, supported, clock >>

\* the component is unmounted: the effect cleanup runs with the current
\* blobUrl, the refs are detached and the state of the instance is discarded
\* (setters called later are ignored)
Unmount ==
    LET c == Cleanup(ticks, encs, live, rafRef, mediaRecorderRef, blobUrl)
    IN  /\ canvasRef
        /\ canvasRef' = FALSE
        /\ ticks' = c.ticks
        /\ encs' = c.encs
        /\ live' = c.live
        /\ duration' = 5
        /\ fps' = 30
        /\ isRecording' = FALSE
        /\ progress' = 0
        /\ blobUrl' = 0
        /\ blobSize' = 0
        /\ videoSrc' = 0
        /\ prompt' = "A serene sunrise over mountains with floating particles"
        /\ subtitle' = "Generated locally with Canvas + WebM"
        /\ bgStyle' = "Aurora"
        /\ resolutionKey' = "720p"
        /\ canvas' = RESOLUTION_MAP["720p"]
        /\ ev' = [op |-> "unmount", had |-> blobUrl, cleanup |-> TRUE]
        /\ UNCHANGED << mediaRecorderRef, chunksRef, rafRef, startTimeRef,
                        nextRaf, nextUrl, supported, clock >>

\* onChange of the duration field: setDuration(parseInt(value || "0", 10))
SetDuration(d) ==
    /\ canvasRef
    /\ d # duration
    /\ duration' = d
    /\ ev' = [op |-> "config"]
    /\ UNCHANGED << fps, state, refs, platform, render, supported, clock >>

\* onChange of the FPS field: setFps(parseInt(value || "0", 10))
SetFps(f) ==
    /\ canvasRef
    /\ f # fps
    /\ fps' = f
    /\ ev' = [op |-> "config"]
    /\ UNCHANGED << duration, state, refs, platform, render, supported, clock >>

\* time passes while a requested frame waits for its timestamp (the clock is
\* read only by startRecording and step)
Advance(d) ==
    /\ ticks # {}
    /\ clock + d <= MaxNow
    /\ clock' = clock + d
    /\ ev' = [op |-> "time"]
    /\ UNCHANGED << config, state, refs, platform, render, supported >>

\* onChange of the Title field: setPrompt(value)
SetPrompt(p) ==
    /\ canvasRef
    /\ p # prompt
    /\ prompt' = p
    /\ ev' = [op |-> "render"]
    /\ UNCHANGED << config, state, refs, platform, subtitle, bgStyle,
                    resolutionKey, canvas, supported, clock >>

\* onChange of the Subtitle field: setSubtitle(value)
SetSubtitle(p) ==
    /\ canvasRef
    /\ p # subtitle
    /\ subtitle' = p
    /\ ev' = [op |-> "render"]
    /\ UNCHANGED << config, state, refs, platform, prompt, bgStyle,
                    resolutionKey, canvas, supported, clock >>

\* onChange of the Background select: setBgStyle(value)
SetBgStyle(b) ==
    /\ canvasRef
    /\ b # bgStyle
    /\ bgStyle' = b
    /\ ev' = [op |-> "render"]
    /\ UNCHANGED << config, state, refs, platform, prompt, subtitle,
                    resolutionKey, canvas, supported, clock >>

\* onChange of the Resolution select: setResolutionKey(value); the commit
\* that follows runs the [width, height] effect, which resizes the canvas
SetResolutionKey(k) ==
    /\ canvasRef
    /\ k # resolutionKey
    /\ resolutionKey' = k
    /\ canvas' = IF RESOLUTION_MAP[k] # RESOLUTION_MAP[resolutionKey]
                 THEN RESOLUTION_MAP[k]
                 ELSE canvas
    /\ ev' = [op |-> "render"]
    /\ UNCHANGED << config, state, refs, platform, prompt, subtitle, bgStyle,
                    supported, clock >>

Next ==
    \/ \E ctxOk \in BOOLEAN : StartRecording(ctxOk)
    \/ \E t \in ticks : Step(t)
    \/ StopRecording
    \/ \E e \in 1..Len(encs), s \in ChunkSizes : EncoderData(e, s)
    \/ \E e \in 1..Len(encs), s \in ChunkSizes : EncoderStop(e, s)
    \/ Unmount
    \/ \E d \in Durations : SetDuration(d)
    \/ \E f \in FpsChoices : SetFps(f)
    \/ \E d \in Advances : Advance(d)

Spec == Init /\ [][Next]_vars

\* the session with the render controls in use (duration and FPS left alone)
NextRender ==
    \/ \E ctxOk \in BOOLEAN : StartRecording(ctxOk)
    \/ \E t \in ticks : Step(t)
    \/ StopRecording
    \/ \E e \in 1..Len(encs), s \in ChunkSizes : EncoderData(e, s)
    \/ \E e \in 1..Len(encs), s \in ChunkSizes : EncoderStop(e, s)
    \/ Unmount
    \/ \E p \in Prompts : SetPrompt(p)
    \/ \E p \in Subtitles : SetSubtitle(p)
    \/ \E b \in BgStyles : SetBgStyle(b)
    \/ \E k \in DOMAIN RESOLUTION_MAP : SetResolutionKey(k)
    \/ \E d \in Advances : Advance(d)

RenderSpec == Init /\ [][NextRender]_vars

\* ---- the ranges the duration and FPS fields declare (min, max) ----
ValidDuration == 1..30
ValidFps == 10..60

\* C1: a recording started from Idle and left alone ends, at its encoder's stop
\* event, in Complete with isRecording false, progress 100 and an artifact.
\* (The first encoder, stopped by the clock loop, is the session started from
\* Idle that nobody stopped; the platform supports a listed type.)
C1_RunsToCompletion ==
    (ev.op = "onstop" /\ ev.enc = 1 /\ ev.by = "step" /\ canvasRef
        /\ Find(supported) # "")
        => (~isRecording /\ progress = 100 /\ blobUrl # 0)

\* C2: a tick with elapsed < totalMs (a tick runs only when stop() has not
\* cancelled it) schedules another tick, leaves the encoder recording and
\* leaves isRecording true.
C2_TickReschedules ==
    (ev.op = "tick" /\ ev.elapsed < ev.totalMs)
        => /\ ev.again
           /\ ticks # {}
           /\ isRecording
           /\ encs[mediaRecorderRef].state = "recording"

\* C3: at the tick that ends the loop (no further tick scheduled, encoder asked
\* to stop) the reported progress is 100.
C3_CompletionAtFull ==
    (ev.op = "tick" /\ ~ev.again /\ canvasRef) => progress = 100

\* C4: after every tick the reported progress lies in 0..100 and is not below
\* the progress reported before that tick, whatever duration is configured.
C4_ProgressMonotoneInRange ==
    (ev.op = "tick" /\ canvasRef)
        => (progress # NaN /\ progress \in 0..100 /\ progress >= ev.before)

\* C5: every encoder's stop event fires at most once, an encoder whose stop
\* event fired has no stop task left, and one object URL is minted per stop
\* event, whatever stop() calls, ticks and cleanups are interleaved.
C5_FinalizedOnce ==
    /\ \A e \in 1..Len(encs) :
          /\ encs[e].acks <= 1
          /\ (encs[e].acks = 1 => ~encs[e].pending /\ encs[e].state = "inactive")
    /\ nextUrl - 1 = Cardinality({ e \in 1..Len(encs) : encs[e].acks = 1 })

\* C5 witness: stop() called on a session whose encoder has already delivered
\* its stop event
C5_Witness ==
    /\ ev.op = "stop"
    /\ mediaRecorderRef # 0
    /\ encs[mediaRecorderRef].acks = 1

\* C6: startRecording invoked while isRecording is true changes nothing:
\* configuration, state, refs, encoders, pending ticks and object URLs stay.
C6_StartWhileRecordingNoOp ==
    [][(isRecording /\ ev'.op = "start")
          => (~ev'.accepted /\ UNCHANGED << config, state, refs, platform >>)]_vars

\* C6 witness: a start() was rejected while recording
C6_Witness == ev.op = "start" /\ ~ev.accepted /\ isRecording /\ canvasRef

\* C7: at no time are there two encoders whose chunk or stop callbacks are
\* outstanding (a start() during Finalizing is rejected).
C7_OneActiveEncoder ==
    Cardinality({ e \in 1..Len(encs) :
                    encs[e].state = "recording" \/ encs[e].pending }) <= 1

\* C8: the blob built at an encoder's stop event is exactly the non-zero
\* chunks that encoder delivered since its start, in order, and its size is
\* their sum.
C8_ArtifactIsOwnChunks ==
    ev.op = "onstop"
        => /\ ev.blob.parts = ev.delivered
           /\ ev.blob.size = SumSizes(ev.delivered)
           /\ \A i \in 1..Len(ev.blob.parts) : ev.blob.parts[i].enc = ev.enc

C10_InvalidConfigRejected ==
    [][(ev'.op = "start" /\ (duration \notin ValidDuration \/ fps \notin ValidFps))
          => UNCHANGED << config, state, refs, platform >>]_vars

\* C11: whenever isRecording is false no animation frame is pending, and right
\* after stopRecording none is pending either, so no step runs (no frame drawn,
\* no progress reported, no encoder stop from the loop) for a stopped session.
C11_NoTickUnlessRecording ==
    /\ ~isRecording => ticks = {}
    /\ ev.op = "stop" => ticks = {}

\* C11 witness: stopRecording called while recording with a frame pending
C11_Witness == ev.op = "stop" /\ ev.was /\ ev.hadTick /\ canvasRef /\ ticks = {}

\* C12: the artifact built at the stop event of an encoder that stopRecording
\* stopped is stored (blobUrl set) and holds every chunk that encoder had
\* buffered.
C12_StopKeepsPartialOutput ==
    (ev.op = "onstop" /\ ev.by = "stop" /\ canvasRef)
        => /\ \A i \in 1..Len(ev.delivered) :
                 \E j \in 1..Len(ev.blob.parts) : ev.blob.parts[j] = ev.delivered[i]
           /\ blobUrl # 0

\* C13: at most one object URL is created and not revoked, and none is once
\* the component is unmounted.
C13_NoHandleLeak ==
    /\ Cardinality(live) <= 1
    /\ ~canvasRef => live = {}

\* C14: the effect cleanup (cancel the frame, stop the encoder, revoke the URL)
\* runs in the unmount, once, and in no other event.
C14_TeardownOnlyOnDisposal ==
    /\ ev.op = "unmount" => ev.cleanup
    /\ ev.op \in {"start", "onstop"} /\ canvasRef
          => ~("cleanup" \in DOMAIN ev /\ ev.cleanup)

\* C15: isRecording is never true with neither a frame pending nor the
\* session's encoder recording.
C15_NotStuckInRecording ==
    isRecording
        => \/ ticks # {}
           \/ (mediaRecorderRef # 0 /\ encs[mediaRecorderRef].state = "recording")

\* C16: right after the unmount no frame is pending and the object URL that was
\* current is revoked, whether no encoder was ever created or the encoder had
\* already stopped (its stop() raising).
C16_TeardownCompletes ==
    ev.op = "unmount" => (ticks = {} /\ ev.had \notin live)

\* C16 witness: unmount with an artifact present and its encoder already stopped
C16_Witness ==
    /\ ev.op = "unmount"
    /\ ev.had # 0
    /\ mediaRecorderRef # 0
    /\ encs[mediaRecorderRef].acks = 1
    /\ live = {}

\* C19: after a startRecording accepted with a previous artifact present and a
\* 2D context, and the commit that follows, the new frame is pending and the new
\* encoder is recording.
C19_RestartIsLive ==
    (ev.op = "start" /\ ev.accepted /\ ev.ctx /\ ev.had # 0)
        => (ticks # {} /\ encs[ev.enc].state = "recording")

\* C20: while isRecording is true blobUrl is null and blobSize is 0.
C20_NoArtifactWhileRecording ==
    isRecording => (blobUrl = 0 /\ blobSize = 0)

\* C17: while a frame of a recording is pending the canvas keeps the width and
\* height the recording started with, and every frame a step draws is the
\* frame of the configuration captured at start, its border fitting the
\* canvas it is drawn on.
C17_RenderConfigImmutable ==
    /\ \A t \in ticks :
           canvas = [width |-> t.draw.width, height |-> t.draw.height]
    /\ (ev.op = "tick" /\ canvasRef)
          => ev.frame[Len(ev.frame)] =
                 [cmd |-> "strokeRect",
                  args |-> << 12, 12, canvas.width - 24, canvas.height - 24 >>]

====
